---- MODULE Spec2Model ----
(***************************************************************************)
(* Model of rename_folder.py: a batch client that lists the folders of     *)
(* each Control D profile and PUTs the name "HA-" + name for every folder  *)
(* whose (trimmed) name lacks the prefix.                                  *)
(*                                                                         *)
(* Strings are sequences of one-character strings, JSON values are tagged  *)
(* records, Python exceptions are class names, and a call that may raise   *)
(* yields a record [exc, val] with exc = "none" when it returns.           *)
(***************************************************************************)
EXTENDS Integers, Sequences, FiniteSets, TLC

(* ----------------------------- bounds --------------------------------- *)
\* most profile ids in PROFILE
MaxProfiles == 2
\* most folders the remote service holds, over all profiles together
MaxFolders == 2
\* most consecutive runs of the script against the same remote service
MaxRuns == 2
\* most records in a listing handed to list_existing_folders on its own
MaxRecords == 2

(* ------------------------ program constants --------------------------- *)
MAX_RETRIES == 3
RETRY_DELAY == 1
PREFIX == <<"H", "A", "-">>

\* `time` is used at lines 63 and 78 but the module never imports it
TimeImported == FALSE

(* ------------------------- Python strings ----------------------------- *)
Whitespace == {" ", "\t", "\n", "\r"}

RECURSIVE LStrip(_)
LStrip(s) == IF s # <<>> /\ Head(s) \in Whitespace THEN LStrip(Tail(s)) ELSE s

RECURSIVE RStrip(_)
RStrip(s) ==
    IF s # <<>> /\ s[Len(s)] \in Whitespace
    THEN RStrip(SubSeq(s, 1, Len(s) - 1))
    ELSE s

\* str.strip()
Strip(s) == RStrip(LStrip(s))

\* str.startswith(pre)
StartsWith(s, pre) == Len(s) >= Len(pre) /\ SubSeq(s, 1, Len(pre)) = pre

\* mutant: the prefix put after the name
new_name_Suffix(current_name) == current_name \o PREFIX

\* f"HA-{current_name}"
new_name(current_name) == PREFIX \o current_name

(* --------------------------- JSON values ------------------------------ *)
JNull == [t |-> "null"]
JStr(s) == [t |-> "string", s |-> s]
JNum(n) == [t |-> "number", n |-> n]
JArr(items) == [t |-> "array", items |-> items]
JObj(fields) == [t |-> "object", fields |-> fields]
EmptyFields == [k \in {} |-> JNull]

\* bool(v) of a decoded JSON value
Truthy(v) ==
    CASE v.t = "string" -> v.s # <<>>
      [] v.t = "number" -> v.n # 0
      [] v.t = "array"  -> v.items # <<>>
      [] v.t = "object" -> DOMAIN v.fields # {}
      [] OTHER -> FALSE

\* dict.get(key, default)
DictGet(obj, key, default) ==
    IF key \in DOMAIN obj.fields THEN obj.fields[key] ELSE default

(* --------------------------- exceptions ------------------------------- *)
\* what _api.get / _api.put / raise_for_status raise on a transport failure
TransportFailures == {"ConnectError", "ReadTimeout", "HTTPStatusError"}

\* the classes an exception is an instance of
ClassesOf(exc) ==
    CASE exc = "ConnectError"    -> {"ConnectError", "RequestError", "HTTPError", "Exception"}
      [] exc = "ReadTimeout"     -> {"ReadTimeout", "TimeoutException", "RequestError",
                                     "HTTPError", "Exception"}
      [] exc = "HTTPStatusError" -> {"HTTPStatusError", "HTTPError", "Exception"}
      [] exc = "JSONDecodeError" -> {"JSONDecodeError", "ValueError", "Exception"}
      [] exc = "AttributeError"  -> {"AttributeError", "Exception"}
      [] exc = "TypeError"       -> {"TypeError", "Exception"}
      [] exc = "KeyError"        -> {"KeyError", "LookupError", "Exception"}
      [] exc = "NameError"       -> {"NameError", "Exception"}
      [] OTHER -> {}

\* except (classes): does the handler take exc
Catches(classes, exc) == ClassesOf(exc) \cap classes # {}

Raise(exc) == [exc |-> exc, val |-> <<>>]
Return(val) == [exc |-> "none", val |-> val]

(* ------------------- configuration (lines 31-32) ---------------------- *)
RECURSIVE Split(_, _, _)
\* str.split(sep) for a one-character separator; cur is the piece being read
Split(s, sep, cur) ==
    IF s = <<>> THEN <<cur>>
    ELSE IF Head(s) = sep THEN <<cur>> \o Split(Tail(s), sep, <<>>)
    ELSE Split(Tail(s), sep, Append(cur, Head(s)))

RECURSIVE StripAll(_)
\* mutant: line 32 without its `if p.strip()`
StripAll(pieces) ==
    IF pieces = <<>> THEN <<>>
    ELSE <<Strip(Head(pieces))>> \o StripAll(Tail(pieces))

RECURSIVE StripNonEmpty(_)
\* [p.strip() for p in pieces if p.strip()]
StripNonEmpty(pieces) ==
    IF pieces = <<>> THEN <<>>
    ELSE IF Strip(Head(pieces)) # <<>>
         THEN <<Strip(Head(pieces))>> \o StripNonEmpty(Tail(pieces))
         ELSE StripNonEmpty(Tail(pieces))

\* PROFILE_IDS as computed from the PROFILE environment value
ParseProfileIds(env) == StripNonEmpty(Split(env, ",", <<>>))

(* ------------------- transport wrappers (lines 50-78) ----------------- *)
\* One pass of the for loop of _api_get. attempt is the loop variable,
\* failure the exception of _api.get / raise_for_status or "none".
\* do = "return": the response is returned; "raise": exc leaves the wrapper;
\* "sleep": time.sleep(wait) ran and the loop goes on.
_api_get(attempt, failure) ==
    IF failure = "none" THEN [do |-> "return", exc |-> "none", wait |-> 0]
    ELSE IF ~Catches({"HTTPError", "TimeoutException"}, failure)
         THEN [do |-> "raise", exc |-> failure, wait |-> 0]
    ELSE IF attempt = MAX_RETRIES - 1
         THEN [do |-> "raise", exc |-> failure, wait |-> 0]
    ELSE LET wait_time == RETRY_DELAY * (2 ^ attempt)
         IN  IF TimeImported
             THEN [do |-> "sleep", exc |-> "none", wait |-> wait_time]
             ELSE [do |-> "raise", exc |-> "NameError", wait |-> 0]

\* mutant: a loop that goes on retrying after every transport failure
_api_put_Unbounded(attempt, failure) ==
    IF failure = "none" THEN [do |-> "return", exc |-> "none", wait |-> 0]
    ELSE [do |-> "sleep", exc |-> "none", wait |-> RETRY_DELAY]

\* One pass of the for loop of _api_put
_api_put(attempt, failure) ==
    IF failure = "none" THEN [do |-> "return", exc |-> "none", wait |-> 0]
    ELSE IF ~Catches({"HTTPError", "TimeoutException"}, failure)
         THEN [do |-> "raise", exc |-> failure, wait |-> 0]
    ELSE IF attempt = MAX_RETRIES - 1
         THEN [do |-> "raise", exc |-> failure, wait |-> 0]
    ELSE LET wait_time == RETRY_DELAY * (2 ^ attempt)
         IN  IF TimeImported
             THEN [do |-> "sleep", exc |-> "none", wait |-> wait_time]
             ELSE [do |-> "raise", exc |-> "NameError", wait |-> 0]

(* ------------------- folder lister (lines 80-88) ---------------------- *)
\* A response body: text that is not JSON, or a decoded JSON value
NotJson == [is_json |-> FALSE, value |-> JNull]
Json(v) == [is_json |-> TRUE, value |-> v]

\* Response.json()
ResponseJson(resp) ==
    IF resp.is_json THEN Return(resp.value) ELSE Raise("JSONDecodeError")

\* `for f in folders`: the items a Python for loop draws from a decoded value
Iterate(v) ==
    CASE v.t = "array"  -> Return(v.items)
      [] v.t = "string" -> Return([i \in 1..Len(v.s) |-> JStr(<<v.s[i]>>)])
      [] v.t = "object" /\ DOMAIN v.fields = {} -> Return(<<>>)
      [] v.t = "object" /\ DOMAIN v.fields # {} -> Return(<<JStr(<<"k">>)>>)
      [] OTHER -> Raise("TypeError")

\* mutant: a key that is already there keeps its first value
DictSet_KeepFirst(d, key, value) ==
    IF \E i \in 1..Len(d) : d[i].name = key
    THEN d
    ELSE Append(d, [name |-> key, id |-> value])

\* d[key] = value on an insertion-ordered dict kept as a sequence of items
DictSet(d, key, value) ==
    IF \E i \in 1..Len(d) : d[i].name = key
    THEN [i \in 1..Len(d) |->
            IF d[i].name = key THEN [name |-> key, id |-> value] ELSE d[i]]
    ELSE Append(d, [name |-> key, id |-> value])

RECURSIVE FolderDict(_, _)
\* {f["group"].strip(): f["PK"] for f in folders if f.get("group") and f.get("PK")}
FolderDict(items, acc) ==
    IF items = <<>> THEN Return(acc)
    ELSE LET f == Head(items) IN
         IF f.t # "object" THEN Raise("AttributeError")
         ELSE LET group == DictGet(f, "group", JNull)
                  PK == DictGet(f, "PK", JNull)
              IN  IF ~(Truthy(group) /\ Truthy(PK))
                  THEN FolderDict(Tail(items), acc)
                  ELSE IF group.t # "string" THEN Raise("AttributeError")
                  ELSE FolderDict(Tail(items), DictSet(acc, Strip(group.s), PK))

\* the try block of list_existing_folders, given what _api_get gave
ListBody(got) ==
    IF got.exc # "none" THEN got
    ELSE LET data == ResponseJson(got.val) IN
         IF data.exc # "none" THEN data
         ELSE IF data.val.t # "object" THEN Raise("AttributeError")
         ELSE LET body == DictGet(data.val, "body", JObj(EmptyFields)) IN
              IF body.t # "object" THEN Raise("AttributeError")
              ELSE LET folders == Iterate(DictGet(body, "groups", JArr(<<>>))) IN
                   IF folders.exc # "none" THEN folders
                   ELSE FolderDict(folders.val, <<>>)

\* the classes of `except (httpx.HTTPError, KeyError)` at line 86
ListerCaught == {"HTTPError", "KeyError"}

\* list_existing_folders: got is the outcome of _api_get
list_existing_folders(got) ==
    LET r == ListBody(got) IN
    IF r.exc # "none" /\ Catches(ListerCaught, r.exc) THEN Return(<<>>) ELSE r

(* ------------------------------ state --------------------------------- *)
VARIABLES
    TOKEN,              \* os.getenv("TOKEN"): JNull or a JSON-style string
    PROFILE,            \* os.getenv("PROFILE", "")
    PROFILE_IDS,        \* the list computed at line 32
    remote,             \* the service: profile id -> sequence of [group, PK]
    applied,            \* <<profile id, PK>> of every PUT the service applied
    run,                \* number of the current run of the script
    pc,                 \* "start", "get", "put", "exit", "crash"
    exit_code,          \* argument of exit(), -1 before it
    profile_idx,        \* position of main's for loop in PROFILE_IDS
    main_success_count, \* success_count of main
    results,            \* what rename_folders_for_profile returned, per profile
    existing_folders,   \* the dict of line 110, as a sequence of [name, id]
    item_idx,           \* position of the for loop of line 116
    success_count,      \* success_count of rename_folders_for_profile
    put_log,            \* PUT attempts made for the current profile
    attempt,            \* loop variable of the running wrapper
    first_ok,           \* transport: attempt (1-based) that succeeds, 0 = none
    sleeps,             \* time.sleep arguments of the running wrapper call
    last_call,          \* the wrapper call that ended in the last step
    last_profile        \* the profile call that ended in the last step

vars == <<TOKEN, PROFILE, PROFILE_IDS, remote, applied, run, pc, exit_code, profile_idx,
          main_success_count, results, existing_folders, item_idx,
          success_count, put_log, attempt, first_ok, sleeps, last_call,
          last_profile>>

config == <<TOKEN, PROFILE, PROFILE_IDS, run>>
main_vars == <<exit_code, profile_idx, main_success_count, results>>
profile_vars == <<existing_folders, item_idx, success_count, put_log>>

(* --------------------------- environment ------------------------------ *)
\* folder names the service may hold at the start
FolderNames ==
    { <<"d">>, <<"H", "A">>, <<" ", "H", "A", "-", "d">> }

ProfileName(i) == <<"p", ToString(i)>>
FolderId(i) == <<"g", ToString(i)>>

RECURSIVE JoinIds(_, _)
JoinIds(n, sep) ==
    IF n = 0 THEN <<>>
    ELSE JoinIds(n - 1, sep) \o (IF n > 1 THEN sep ELSE <<>>) \o ProfileName(n)

\* values of the PROFILE environment variable: unset or empty, commas and
\* blanks only, or ids with blanks around them and a stray comma at the end
ProfileEnvs ==
    { <<>>, <<",">>, <<" ", ",", " ">> }
        \cup { JoinIds(n, <<" ", ",", " ">>) \o <<",", " ">> : n \in 1..MaxProfiles }

RECURSIVE SumLens(_, _)
SumLens(lens, ids) ==
    IF ids = <<>> THEN 0 ELSE lens[Head(ids)] + SumLens(lens, Tail(ids))

\* the services that hold at most MaxFolders folders under the given profiles
Remotes(ids) ==
    LET P == {ids[i] : i \in 1..Len(ids)}
        Lens == {l \in [P -> 0..MaxFolders] : SumLens(l, ids) <= MaxFolders}
        Slots(l) == {x \in P \X (1..MaxFolders) : x[2] <= l[x[1]]}
    IN  UNION { { [p \in P |-> [i \in 1..l[p] |->
                        [group |-> names[<<p, i>>], PK |-> FolderId(i)]]]
                  : names \in [Slots(l) -> FolderNames] } : l \in Lens }

\* the body the service sends for GET /profiles/{p}/groups
Listing(folders) ==
    Json(JObj([body |-> JObj([groups |-> JArr([i \in 1..Len(folders) |->
        JObj([group |-> JStr(folders[i].group), PK |-> JStr(folders[i].PK)])])])]))

\* bodies of a successful GET that are not a listing
NotObjectTop == Json(JArr(<<>>))
NotObjectBody == Json(JObj([body |-> JStr(<<"x">>)]))
NotObjectRecord == Json(JObj([body |-> JObj([groups |-> JArr(<<JStr(<<"x">>)>>)])]))
NotStringName ==
    Json(JObj([body |-> JObj([groups |->
        JArr(<<JObj([group |-> JNum(7), PK |-> JStr(FolderId(1))])>>)])]))
MissingBody == Json(JObj(EmptyFields))

Malformed == {NotJson, NotObjectTop, NotObjectBody, NotObjectRecord, NotStringName}

\* PUT /profiles/{profile}/groups/{folder_id} with name = new, once applied
ApplyPut(rem, profile, folder_id, new) ==
    [rem EXCEPT ![profile] = [i \in 1..Len(@) |->
        IF folder_id.t = "string" /\ folder_id.s = @[i].PK
        THEN [@[i] EXCEPT !.group = new]
        ELSE @[i]]]

(* ----------------------------- Init ----------------------------------- *)
NoCall == [fn |-> "none", attempts |-> 0, sleeps |-> <<>>, raised |-> "none",
           first_ok |-> 0]
\* "-": no GET ended in the step (the index, if any, is from an earlier step)
NoGot == [exc |-> "-", val |-> <<>>]
NoProfile == [profile |-> <<>>, ok |-> FALSE, exc |-> "none", got |-> NoGot,
              listed |-> NoGot, folders |-> <<>>, success_count |-> 0,
              put_log |-> <<>>, report |-> <<>>]

Init ==
    /\ TOKEN \in {JNull, JStr(<<>>), JStr(<<"t">>)}
    /\ PROFILE \in ProfileEnvs
    /\ PROFILE_IDS = ParseProfileIds(PROFILE)
    /\ remote \in Remotes(PROFILE_IDS)
    /\ applied = {}
    /\ run = 1
    /\ pc = "start"
    /\ exit_code = -1
    /\ profile_idx = 0
    /\ main_success_count = 0
    /\ results = <<>>
    /\ existing_folders = <<>>
    /\ item_idx = 0
    /\ success_count = 0
    /\ put_log = <<>>
    /\ attempt = 0
    /\ first_ok = 0
    /\ sleeps = <<>>
    /\ last_call = NoCall
    /\ last_profile = NoProfile

(* ------------- rename_folder and the per-profile loop ----------------- *)
\* the classes of `except httpx.HTTPError` at line 100
RenamerCaught == {"HTTPError"}

\* rename_folder, given the exception that left _api_put ("none": it returned)
rename_folder(put_exc) ==
    IF put_exc = "none" THEN Return(TRUE)
    ELSE IF Catches(RenamerCaught, put_exc) THEN Return(FALSE)
    ELSE Raise(put_exc)

\* mutant: the prefix check of line 117 dropped
NeedsPrefix_Always(name) == TRUE

\* line 117: `if not name.startswith("HA-")`
NeedsPrefix(name) == ~StartsWith(name, PREFIX)

\* mutant: line 122 counting every folder of the index
AllRenamed_AllFolders(folders, count) == count = Len(folders)

\* line 122: success_count == len([n for n in existing_folders if not n.startswith("HA-")])
AllRenamed(folders, count) ==
    count = Cardinality({i \in 1..Len(folders) : ~StartsWith(folders[i].name, PREFIX)})

\* mutant: the loop of line 116 renaming every item
NextItem_NoSkip(folders, from) == IF from <= Len(folders) THEN from ELSE 0

\* mutant: the loop starting from the last folder that lacks the prefix
NextItem_Last(folders, from) ==
    LET todo == {i \in from..Len(folders) : NeedsPrefix(folders[i].name)}
    IN  IF todo = {} THEN 0 ELSE CHOOSE i \in todo : \A j \in todo : i >= j

\* line 121: the "{success_count}/{len(existing_folders)} folders renamed" report
ProfileReport(folders, count) == <<count, Len(folders)>>

\* the next item at or after position from that the loop of line 116 renames
NextItem(folders, from) ==
    LET todo == {i \in from..Len(folders) : NeedsPrefix(folders[i].name)}
    IN  IF todo = {} THEN 0 ELSE CHOOSE i \in todo : \A j \in todo : i <= j

\* mutant: the try of lines 109-125 without its except clause
ProfileCaught_None == {}

\* mutant: line 123 catching httpx.HTTPError only
ProfileCaught_HTTPOnly == {"HTTPError"}

\* the classes of `except Exception` at line 123
ProfileCaught == {"Exception"}

\* a wrapper call begins
StartCall(kind) ==
    /\ pc' = kind
    /\ attempt' = 0
    /\ first_ok' = 0
    /\ sleeps' = <<>>

NoWrapper(newpc) ==
    /\ pc' = newpc
    /\ attempt' = 0
    /\ first_ok' = 0
    /\ sleeps' = <<>>

\* mutant: line 142 exiting 0 when any profile succeeded
ExitStatus_Any(count) == IF count > 0 THEN 0 ELSE 1

\* line 142: exit(0 if success_count == len(PROFILE_IDS) else 1)
ExitStatus(count) == IF count = Len(PROFILE_IDS) THEN 0 ELSE 1

\* rename_folders_for_profile returns ok to main (lines 138-142)
ProfileReturns(ok, info) ==
    LET count == main_success_count + (IF ok THEN 1 ELSE 0) IN
    /\ last_profile' = [info EXCEPT !.profile = PROFILE_IDS[profile_idx], !.ok = ok]
    /\ results' = Append(results, ok)
    /\ main_success_count' = count
    /\ existing_folders' = <<>>
    /\ item_idx' = 0
    /\ success_count' = 0
    /\ put_log' = <<>>
    /\ IF profile_idx < Len(PROFILE_IDS)
       THEN /\ profile_idx' = profile_idx + 1
            /\ exit_code' = exit_code
            /\ StartCall("get")
       ELSE /\ profile_idx' = profile_idx
            /\ exit_code' = ExitStatus(count)
            /\ NoWrapper("exit")

\* an exception reaches the try of rename_folders_for_profile (lines 109, 123-125)
ProfileRaised(exc, info) ==
    IF Catches(ProfileCaught, exc)
    THEN ProfileReturns(FALSE, [info EXCEPT !.exc = exc])
    ELSE /\ last_profile' = [info EXCEPT !.profile = PROFILE_IDS[profile_idx],
                                         !.exc = exc]
         /\ NoWrapper("crash")
         /\ UNCHANGED <<main_vars, profile_vars>>

\* the for loop of lines 116-119 goes on at position from, then lines 121-122
RenameLoop(folders, from, count, log, info) ==
    LET i == NextItem(folders, from) IN
    IF i # 0
    THEN /\ existing_folders' = folders
         /\ item_idx' = i
         /\ success_count' = count
         /\ put_log' = log
         /\ last_profile' = NoProfile
         /\ StartCall("put")
         /\ UNCHANGED main_vars
    ELSE ProfileReturns(AllRenamed(folders, count),
                        [info EXCEPT !.folders = folders, !.success_count = count,
                                     !.put_log = log,
                                     !.report = ProfileReport(folders, count)])

\* _api_get ended with got: lines 83-88 and 110-115
GetEnds(got) ==
    LET listed == list_existing_folders(got)
        info == [NoProfile EXCEPT !.got = got, !.listed = listed, !.folders = listed.val]
    IN  IF listed.exc # "none" THEN ProfileRaised(listed.exc, info)
        ELSE IF listed.val = <<>> THEN ProfileReturns(TRUE, info)
        ELSE RenameLoop(listed.val, 1, 0, <<>>, info)

\* _api_put ended with put_exc: lines 93-102 and 118-119
PutEnds(put_exc, log) ==
    LET r == rename_folder(put_exc)
        info == [NoProfile EXCEPT !.folders = existing_folders,
                                  !.success_count = success_count,
                                  !.put_log = log]
    IN  IF r.exc # "none" THEN ProfileRaised(r.exc, info)
        ELSE RenameLoop(existing_folders, item_idx + 1,
                        success_count + (IF r.val THEN 1 ELSE 0), log, info)

\* The transport's script for one wrapper call: the attempt (1-based) at which
\* the request succeeds, 0 when every attempt fails. It is fixed when the call
\* begins and shows at the first attempt.
Scripts == 0..MAX_RETRIES
Script(s) == IF attempt = 0 THEN s ELSE first_ok

CallEnded(fn, exc, s) ==
    [fn |-> fn, attempts |-> attempt + 1, sleeps |-> sleeps, raised |-> exc,
     first_ok |-> s]

(* ----------------------------- actions -------------------------------- *)
\* main up to the first HTTP attempt (lines 130-137)
Main ==
    /\ pc = "start"
    /\ last_call' = NoCall
    /\ last_profile' = NoProfile
    /\ UNCHANGED <<config, remote, applied, profile_vars, results>>
    /\ IF ~Truthy(TOKEN) \/ PROFILE_IDS = <<>>
       THEN /\ exit_code' = 1
            /\ NoWrapper("exit")
            /\ UNCHANGED <<profile_idx, main_success_count>>
       ELSE /\ exit_code' = exit_code
            /\ main_success_count' = 0
            /\ profile_idx' = 1
            /\ StartCall("get")

\* an attempt of _api_get succeeds and the service sends resp
ApiGetOk(resp, s) ==
    /\ pc = "get"
    /\ s = Script(s)
    /\ s = attempt + 1
    /\ resp \in {Listing(remote[PROFILE_IDS[profile_idx]]), MissingBody} \cup Malformed
    /\ _api_get(attempt, "none").do = "return"
    /\ last_call' = CallEnded("get", "none", s)
    /\ GetEnds(Return(resp))
    /\ UNCHANGED <<config, remote, applied>>

\* an attempt of _api_get fails at the transport level
ApiGetFail(failure, s) ==
    /\ pc = "get"
    /\ s = Script(s)
    /\ s # attempt + 1
    /\ failure \in TransportFailures
    /\ UNCHANGED <<config, remote, applied>>
    /\ LET step == _api_get(attempt, failure) IN
       IF step.do = "sleep"
       THEN /\ attempt' = attempt + 1
            /\ first_ok' = s
            /\ sleeps' = Append(sleeps, step.wait)
            /\ last_call' = NoCall
            /\ last_profile' = NoProfile
            /\ UNCHANGED <<pc, main_vars, profile_vars>>
       ELSE /\ last_call' = CallEnded("get", step.exc, s)
            /\ GetEnds(Raise(step.exc))

\* an attempt of _api_put succeeds: the service renames the folder
ApiPutOk(s) ==
    /\ pc = "put"
    /\ s = Script(s)
    /\ s = attempt + 1
    /\ _api_put(attempt, "none").do = "return"
    /\ LET item == existing_folders[item_idx]
           profile == PROFILE_IDS[profile_idx]
           name == new_name(item.name)
       IN  /\ remote' = ApplyPut(remote, profile, item.id, name)
           /\ applied' = applied \cup {<<profile, item.id>>}
           /\ last_call' = CallEnded("put", "none", s)
           /\ PutEnds("none", Append(put_log, [id |-> item.id, name |-> name,
                                               ok |-> TRUE, applied |-> TRUE]))
    /\ UNCHANGED config

\* an attempt of _api_put fails at the transport level; the service may have
\* applied the rename before the failure was reported (served = TRUE)
ApiPutFail(failure, served, s) ==
    /\ pc = "put"
    /\ s = Script(s)
    /\ s # attempt + 1
    /\ failure \in TransportFailures
    /\ UNCHANGED config
    /\ LET item == existing_folders[item_idx]
           profile == PROFILE_IDS[profile_idx]
           name == new_name(item.name)
           log == Append(put_log, [id |-> item.id, name |-> name,
                                   ok |-> FALSE, applied |-> served])
           step == _api_put(attempt, failure)
       IN  /\ remote' = (IF served THEN ApplyPut(remote, profile, item.id, name)
                         ELSE remote)
           /\ applied' = (IF served THEN applied \cup {<<profile, item.id>>}
                          ELSE applied)
           /\ IF step.do = "sleep"
              THEN /\ attempt' = attempt + 1
                   /\ first_ok' = s
                   /\ sleeps' = Append(sleeps, step.wait)
                   /\ put_log' = log
                   /\ last_call' = NoCall
                   /\ last_profile' = NoProfile
                   /\ UNCHANGED <<pc, main_vars, existing_folders, item_idx,
                                  success_count>>
              ELSE /\ last_call' = CallEnded("put", step.exc, s)
                   /\ PutEnds(step.exc, log)

\* the script is run again against the same service
Rerun ==
    /\ pc = "exit"
    /\ run < MaxRuns
    /\ run' = run + 1
    /\ pc' = "start"
    /\ exit_code' = -1
    /\ profile_idx' = 0
    /\ main_success_count' = 0
    /\ results' = <<>>
    /\ last_call' = NoCall
    /\ last_profile' = NoProfile
    /\ UNCHANGED <<TOKEN, PROFILE, PROFILE_IDS, remote, applied, profile_vars, attempt,
                   first_ok, sleeps>>

\* every body a GET may be answered with
Bodies == {Listing(remote[p]) : p \in DOMAIN remote} \cup {MissingBody} \cup Malformed

Next ==
    \/ Main
    \/ \E resp \in Bodies, s \in Scripts : ApiGetOk(resp, s)
    \/ \E failure \in TransportFailures, s \in Scripts : ApiGetFail(failure, s)
    \/ \E s \in Scripts : ApiPutOk(s)
    \/ \E failure \in TransportFailures, served \in BOOLEAN, s \in Scripts :
          ApiPutFail(failure, served, s)
    \/ Rerun

Spec == Init /\ [][Next]_vars

\* a step of the running script: main is sequential code, so it goes on to its
\* next statement, and every HTTP attempt returns or fails in finite time
RunStep ==
    \/ Main
    \/ \E resp \in Bodies, s \in Scripts : ApiGetOk(resp, s)
    \/ \E failure \in TransportFailures, s \in Scripts : ApiGetFail(failure, s)
    \/ \E s \in Scripts : ApiPutOk(s)
    \/ \E failure \in TransportFailures, served \in BOOLEAN, s \in Scripts :
          ApiPutFail(failure, served, s)

\* the script keeps running while it has a step to take; nothing obliges
\* anybody to run it again
SpecFair == Spec /\ WF_vars(RunStep)

(* --------------- list_existing_folders on its own --------------------- *)
\* name fields and identifier fields a well-formed listing may carry
ListedNames ==
    { <<>>, <<" ">>, <<"d">>, <<" ", "d", " ">>, <<" ", "H", "A", "-", "d">> }
GroupValues == {JStr(n) : n \in ListedNames}
PKValues == {JStr(<<>>), JStr(FolderId(1)), JStr(FolderId(2))}

\* group records: both fields, one of them, or none
ListedRecords ==
    {JObj([group |-> g, PK |-> k]) : g \in GroupValues, k \in PKValues}
        \cup {JObj([group |-> g]) : g \in GroupValues}
        \cup {JObj([PK |-> k]) : k \in PKValues}
        \cup {JObj(EmptyFields)}

\* the body of a listing with the given group records
ListingOf(records) == Json(JObj([body |-> JObj([groups |-> JArr(records)])]))

WellFormedListings ==
    UNION { {ListingOf(records) : records \in [1..n -> ListedRecords]}
            : n \in 0..MaxRecords }

\* _api_get has returned a well-formed listing to list_existing_folders
ListerInit ==
    /\ TOKEN = JStr(<<"t">>)
    /\ PROFILE = ProfileName(1)
    /\ PROFILE_IDS = ParseProfileIds(PROFILE)
    /\ remote = [p \in {ProfileName(1)} |-> <<>>]
    /\ applied = {}
    /\ run = 1
    /\ pc = "list"
    /\ exit_code = -1
    /\ profile_idx = 1
    /\ main_success_count = 0
    /\ results = <<>>
    /\ existing_folders = <<>>
    /\ item_idx = 0
    /\ success_count = 0
    /\ put_log = <<>>
    /\ attempt = 0
    /\ first_ok = 1
    /\ sleeps = <<>>
    /\ last_call = [NoCall EXCEPT !.fn = "get", !.attempts = 1, !.first_ok = 1]
    /\ \E body \in WellFormedListings :
          last_profile = [NoProfile EXCEPT !.got = Return(body)]

\* lines 83-88 run on that response; line 110 binds the result
ListFolders ==
    /\ pc = "list"
    /\ LET listed == list_existing_folders(last_profile.got) IN
       /\ last_profile' = [last_profile EXCEPT !.listed = listed]
       /\ existing_folders' = listed.val
    /\ pc' = "listed"
    /\ last_call' = NoCall
    /\ UNCHANGED <<config, remote, applied, main_vars, item_idx, success_count,
                   put_log, attempt, first_ok, sleeps>>

ListerNext == ListFolders

SpecLister == ListerInit /\ [][ListerNext]_vars

(* ======================== properties ================================== *)
\* s begins with pre, character by character
BeginsWith(s, pre) == Len(s) >= Len(pre) /\ \A i \in 1..Len(pre) : s[i] = pre[i]
HA == <<"H", "A", "-">>

\* a call of rename_folders_for_profile ended in the last step
ProfileEnded == last_profile.profile # <<>>
\* ... and it had got a folder index from the lister
Indexed == ProfileEnded /\ last_profile.listed.exc \in {"none", "-"}
\* positions of the ended profile's index whose name lacks the prefix
Lacking == {i \in 1..Len(last_profile.folders) : ~BeginsWith(last_profile.folders[i].name, HA)}
\* positions of the ended profile's index whose folder had a PUT attempt / a successful PUT
Attempted == {i \in 1..Len(last_profile.folders) :
                \E k \in 1..Len(last_profile.put_log) :
                    last_profile.put_log[k].id = last_profile.folders[i].id}
Succeeded == {i \in 1..Len(last_profile.folders) :
                \E k \in 1..Len(last_profile.put_log) :
                    /\ last_profile.put_log[k].id = last_profile.folders[i].id
                    /\ last_profile.put_log[k].ok}
ConfigOk == Truthy(TOKEN) /\ PROFILE_IDS # <<>>

\* C1: a wrapper call whose every attempt fails at the transport level makes
\* exactly 3 attempts, sleeps 1 s then 2 s, and raises the transport failure.
C1_RetryExhaustion ==
    (last_call.fn \in {"get", "put"} /\ last_call.first_ok = 0)
        => /\ last_call.attempts = 3
           /\ last_call.sleeps = <<1, 2>>
           /\ Catches({"HTTPError"}, last_call.raised)

\* C2: in a profile with two or more folders lacking the prefix, when the
\* rename of one fails, every other folder lacking the prefix still has its PUT
\* attempted, the success count is the number of successful PUTs, and the
\* profile is reported as not fully successful.
C2_PartialFailureIsolation ==
    (Indexed /\ Cardinality(Lacking) >= 2 /\ Attempted \ Succeeded # {})
        => /\ Lacking \subseteq Attempted
           /\ last_profile.success_count = Cardinality(Succeeded)
           /\ ~last_profile.ok

\* C3: when the GET of the groups fails at the transport level, the lister
\* returns an empty mapping, no PUT is issued and the profile is reported as
\* fully successful.
C3_FailSoftTransport ==
    (ProfileEnded /\ last_profile.got.exc \notin {"none", "-"})
        => /\ last_profile.listed = Return(<<>>)
           /\ last_profile.put_log = <<>>
           /\ last_profile.ok

\* C4: when the GET succeeds with a malformed body, the lister returns an
\* empty mapping, nothing reaches rename_folders_for_profile's handler and the
\* profile is reported as fully successful.
C4_FailSoftMalformed ==
    (ProfileEnded /\ last_profile.got.exc = "none" /\ last_profile.got.val \in Malformed)
        => /\ last_profile.listed = Return(<<>>)
           /\ last_profile.exc = "none"
           /\ last_profile.ok

\* C5: no folder name of the service ever begins with "HA-HA-", over any
\* number of runs and any pattern of failures, applied-but-failed PUTs included.
C5_NoDoublePrefix ==
    \A p \in DOMAIN remote : \A i \in 1..Len(remote[p]) :
        ~BeginsWith(remote[p][i].group, HA \o HA)

\* a later run lists a folder that an earlier PUT renamed, and leaves it alone
C5_Witness ==
    /\ run > 1
    /\ ProfileEnded
    /\ \E i \in 1..Len(last_profile.folders) :
          /\ <<last_profile.profile, last_profile.folders[i].id>> \in applied
          /\ BeginsWith(last_profile.folders[i].name, HA)
          /\ i \notin Attempted

\* C6: no PUT is ever issued for a folder whose trimmed listed name starts
\* with "HA-"; a profile whose index is all prefixed gets no PUT and succeeds.
C6_IdempotentSkip ==
    /\ pc = "put" => ~BeginsWith(existing_folders[item_idx].name, HA)
    /\ \A k \in 1..Len(put_log) : \E i \in 1..Len(existing_folders) :
          /\ existing_folders[i].id = put_log[k].id
          /\ ~BeginsWith(existing_folders[i].name, HA)
    /\ Indexed => Attempted \subseteq Lacking
    /\ (Indexed /\ Lacking = {}) => (last_profile.put_log = <<>> /\ last_profile.ok)

\* a profile whose listed folders all carry the prefix ended
C6_Witness ==
    Indexed /\ last_profile.folders # <<>> /\ Lacking = {} /\ last_profile.ok

\* C7: when an attempt fails and a later attempt within the ceiling would
\* succeed, the wrapper returns the response of the first successful attempt
\* after exactly that many attempts.
C7_TransientRecovery ==
    (last_call.fn \in {"get", "put"} /\ last_call.first_ok >= 2)
        => /\ last_call.raised = "none"
           /\ last_call.attempts = last_call.first_ok

\* C8: an exception raised while a profile is processed becomes a False
\* result of that profile; it never leaves rename_folders_for_profile, and
\* main goes on to every remaining profile and reaches its exit.
C8_Containment ==
    /\ pc # "crash"
    /\ last_call.raised # "none" => (ProfileEnded /\ ~last_profile.ok)
    /\ (ProfileEnded /\ last_profile.exc # "none")
          => /\ ~last_profile.ok
             /\ results # <<>> /\ ~results[Len(results)]
             /\ pc = (IF Len(results) < Len(PROFILE_IDS) THEN "get" ELSE "exit")
    /\ (pc = "exit" /\ ConfigOk) => Len(results) = Len(PROFILE_IDS)

\* an exception ended a profile and main has begun the next one
C8_Witness ==
    ProfileEnded /\ last_profile.exc = "NameError" /\ pc = "get" /\ profile_idx = 2

\* C9: with an index obtained, the profile succeeds exactly when every
\* folder of the index lacking the prefix was renamed successfully, which is
\* when the success count equals the number of folders lacking the prefix.
C9_SuccessFormula ==
    Indexed =>
        /\ last_profile.ok <=> (Lacking \subseteq Succeeded)
        /\ last_profile.ok <=> (last_profile.success_count = Cardinality(Lacking))
        /\ last_profile.folders = <<>> => last_profile.ok

\* a profile ended in success after a rename, with a prefixed folder skipped
C9_Witness ==
    Indexed /\ last_profile.ok /\ Succeeded # {} /\ Lacking # 1..Len(last_profile.folders)

\* C10: with credential and profiles set, main exits only after every profile
\* was processed, with 0 exactly when every profile reported success, else 1.
C10_ExitStatus ==
    /\ (exit_code # -1) <=> (pc = "exit")
    /\ (pc = "exit" /\ ConfigOk) =>
          /\ Len(results) = Len(PROFILE_IDS)
          /\ exit_code \in {0, 1}
          /\ (exit_code = 0) <=> (\A i \in 1..Len(results) : results[i])

\* main exits 1 after a run in which one profile succeeded and one failed
C10_Witness ==
    /\ pc = "exit"
    /\ Len(results) = 2
    /\ results[1] /\ ~results[2]
    /\ exit_code = 1

\* made of commas and whitespace only (the empty value included)
OnlyCommasAndBlanks(s) == \A i \in 1..Len(s) : s[i] \in {",", " ", "\t", "\n", "\r"}

\* C11: with the credential missing or empty, or the profile list empty (a
\* PROFILE of commas and whitespace included), main makes no HTTP call (it is
\* never inside a wrapper and no call ever ends) and exits with status 1.
C11_ConfigPrecondition ==
    (~Truthy(TOKEN) \/ PROFILE_IDS = <<>> \/ OnlyCommasAndBlanks(PROFILE))
        => /\ pc \in {"start", "exit"}
           /\ last_call.fn = "none"
           /\ put_log = <<>>
           /\ applied = {}
           /\ results = <<>>
           /\ pc = "exit" => exit_code = 1

\* main has exited on a credential that is set and a PROFILE of " , "
C11_Witness ==
    /\ pc = "exit"
    /\ exit_code = 1
    /\ Truthy(TOKEN)
    /\ PROFILE # <<>>
    /\ OnlyCommasAndBlanks(PROFILE)

\* C12: the tally a profile reports is (renames that succeeded, folders that
\* lacked the prefix); prefixed folders are not counted. For the index
\* {"Ads": g1, "HA-Social": g2} with every call succeeding it is 1/1.
C12_ProfileTally ==
    (Indexed /\ last_profile.report # <<>>)
        => last_profile.report = <<Cardinality(Succeeded), Cardinality(Lacking)>>

\* s without its leading and trailing whitespace, stated by positions
Blank == {" ", "\t", "\n", "\r"}
Trimmed(s) ==
    LET solid == {i \in 1..Len(s) : s[i] \notin Blank} IN
    IF solid = {} THEN <<>>
    ELSE SubSeq(s, CHOOSE a \in solid : \A i \in solid : a <= i,
                   CHOOSE b \in solid : \A i \in solid : i <= b)

\* the ended profile met no failure: no exception, every PUT attempt succeeded
NothingFailed ==
    /\ ProfileEnded
    /\ last_profile.exc = "none"
    /\ last_profile.got.exc \in {"none", "-"}
    /\ \A k \in 1..Len(last_profile.put_log) : last_profile.put_log[k].ok
\* ... and its index came from the listing of the profile's folders
WasListed ==
    \/ last_profile.folders # <<>>
    \/ /\ last_profile.got.exc = "none"
       /\ last_profile.got.val = Listing(remote[last_profile.profile])
\* the PUT attempts of the ended profile for position i of its index
PutsFor(i) ==
    {k \in 1..Len(last_profile.put_log) :
        last_profile.put_log[k].id = last_profile.folders[i].id}
\* each folder of the index lacking the prefix got exactly one PUT, to its own
\* identifier in its own profile, carrying "HA-" + its trimmed name, and no
\* other PUT was made
OnePutEach ==
    /\ \A i \in Lacking :
          /\ Cardinality(PutsFor(i)) = 1
          /\ \A k \in PutsFor(i) :
                last_profile.put_log[k].name = HA \o last_profile.folders[i].name
          /\ <<last_profile.profile, last_profile.folders[i].id>> \in applied
          /\ \E j \in 1..Len(remote[last_profile.profile]) :
                /\ remote[last_profile.profile][j].PK = last_profile.folders[i].id.s
                /\ remote[last_profile.profile][j].group = HA \o last_profile.folders[i].name
    /\ Len(last_profile.put_log) = Cardinality(Lacking)

\* C13 as stated: when no HTTP call fails, each folder of the index lacking
\* the prefix gets exactly one PUT with "HA-" + its trimmed name, and afterwards
\* every listed folder's name at the service starts with "HA-".
C13_RenameEffect ==
    (NothingFailed /\ WasListed)
        => /\ OnePutEach
           /\ \A j \in 1..Len(remote[last_profile.profile]) :
                 BeginsWith(remote[last_profile.profile][j].group, HA)

\* C13 as amended: ... and afterwards every folder of the index has a name at
\* the service that, trimmed of surrounding whitespace, starts with "HA-" (a
\* listed folder whose trimmed name is that of a later record is not in the
\* index and keeps its name).
C13_RenameEffectIndexed ==
    (NothingFailed /\ WasListed)
        => /\ OnePutEach
           /\ \A i \in 1..Len(last_profile.folders) :
                 \E j \in 1..Len(remote[last_profile.profile]) :
                    /\ remote[last_profile.profile][j].PK = last_profile.folders[i].id.s
                    /\ BeginsWith(Trimmed(remote[last_profile.profile][j].group), HA)

\* a profile ended without failure after a rename, one listed folder having
\* been left out of the index as a duplicate
C13_Witness ==
    /\ NothingFailed
    /\ Lacking # {}
    /\ Len(remote[last_profile.profile]) > Len(last_profile.folders)

\* the group records of the listing handed to the lister
InRecords == last_profile.got.val.value.fields["body"].fields["groups"].items
\* record r has a non-empty string under key
HasField(r, key) == key \in DOMAIN r.fields /\ r.fields[key].s # <<>>
\* positions of the records with a non-empty name and a non-empty identifier
Included == {i \in 1..Len(InRecords) :
                HasField(InRecords[i], "group") /\ HasField(InRecords[i], "PK")}
KeyOf(i) == Trimmed(InRecords[i].fields["group"].s)
\* the last included record whose trimmed name is key
LastWith(key) ==
    CHOOSE i \in Included :
        /\ KeyOf(i) = key
        /\ \A j \in Included : KeyOf(j) = key => j <= i

\* C14: for a well-formed listing the lister returns exactly the mapping from
\* the trimmed name to the identifier of every record that has both fields
\* non-empty; other records are left out and, of records with the same trimmed
\* name, the later one's identifier stands.
C14_ListerResult ==
    pc = "listed" =>
        LET out == last_profile.listed.val IN
        /\ last_profile.listed.exc = "none"
        /\ {out[j].name : j \in 1..Len(out)} = {KeyOf(i) : i \in Included}
        /\ \A j, k \in 1..Len(out) : out[j].name = out[k].name => j = k
        /\ \A j \in 1..Len(out) :
              out[j].id = InRecords[LastWith(out[j].name)].fields["PK"]

\* the lister has returned for a listing in which two records with different
\* identifiers share a trimmed name and another record is left out
C14_Witness ==
    /\ pc = "listed"
    /\ \E i, j \in Included :
          /\ i < j
          /\ KeyOf(i) = KeyOf(j)
          /\ InRecords[i].fields["group"] # InRecords[j].fields["group"]
          /\ InRecords[i].fields["PK"] # InRecords[j].fields["PK"]

\* C18: every key of the index list_existing_folders returns is a non-empty
\* string, also for records whose name is only whitespace, so the name
\* rename_folder would send for it is never the bare prefix "HA-".
C18_NonEmptyNames ==
    pc = "listed" =>
        \A j \in 1..Len(existing_folders) :
            /\ existing_folders[j].name # <<>>
            /\ new_name(existing_folders[j].name) # PREFIX

\* a profile of the list is being processed
InProfile == pc \in {"get", "put"}
\* positions in folders of the identifiers the PUT attempts of log were sent to
PutPositions(folders, log) ==
    {j \in 1..Len(folders) : \E k \in 1..Len(log) : log[k].id = folders[j].id}
\* every PUT of log went to an identifier of the index, and the PUTs went
\* through the index in its iteration order
PutsFollow(folders, log) ==
    /\ \A k \in 1..Len(log) : \E j \in 1..Len(folders) : folders[j].id = log[k].id
    /\ \A k1, k2 \in 1..Len(log) : \A j1, j2 \in 1..Len(folders) :
          (k1 < k2 /\ folders[j1].id = log[k1].id /\ folders[j2].id = log[k2].id)
              => j1 <= j2
\* positions up to last of the folders that lack the prefix
LackingUpTo(folders, last) == {j \in 1..last : ~BeginsWith(folders[j].name, HA)}

C15_Positions ==
    /\ InProfile => /\ profile_idx \in 1..Len(PROFILE_IDS)
                    /\ Len(results) = profile_idx - 1
    /\ (ProfileEnded /\ pc # "crash") => last_profile.profile = PROFILE_IDS[Len(results)]
    /\ pc = "get" => put_log = <<>>
    /\ pc = "put" =>
          /\ item_idx \in 1..Len(existing_folders)
          /\ \A j \in 1..Len(existing_folders) :
                \E i \in 1..Len(remote[PROFILE_IDS[profile_idx]]) :
                    JStr(remote[PROFILE_IDS[profile_idx]][i].PK) = existing_folders[j].id
          /\ PutsFollow(existing_folders, put_log)
          /\ PutPositions(existing_folders, put_log) \cup {item_idx}
                = LackingUpTo(existing_folders, item_idx)
    /\ ProfileEnded =>
          /\ PutsFollow(last_profile.folders, last_profile.put_log)
          /\ \A j \in PutPositions(last_profile.folders, last_profile.put_log) :
                LackingUpTo(last_profile.folders, j)
                    \subseteq PutPositions(last_profile.folders, last_profile.put_log)
    /\ \A x \in applied : \E j \in 1..Len(remote[x[1]]) : JStr(remote[x[1]][j].PK) = x[2]

C15_Steps ==
    (InProfile /\ run' = run) =>
        /\ InProfile' => profile_idx' \in {profile_idx, profile_idx + 1}
        /\ (InProfile' /\ profile_idx' = profile_idx + 1)
              => (pc' = "get" /\ attempt' = 0 /\ ProfileEnded')
        /\ (pc = "put" /\ pc' = "get") => profile_idx' = profile_idx + 1
        /\ (pc = "put" /\ pc' = "put")
              => /\ profile_idx' = profile_idx
                 /\ existing_folders' = existing_folders
                 /\ item_idx' >= item_idx
        /\ ~InProfile' => pc' \in {"exit", "crash"}

\* C15: in one run the profiles are processed in the order of the list and a
\* profile's HTTP attempts all end before the next profile's begin; within a
\* profile the GET attempts come before every PUT attempt, the PUTs go through
\* the folders that lack the prefix one at a time in the index's iteration
\* order, and every PUT is sent to an identifier of that profile's listing.
C15_SequentialOrdering == []C15_Positions /\ [][C15_Steps]_vars

\* the second profile of the list is at the PUT of the second folder of its
\* index, after the PUT of the first
C15_Witness ==
    /\ pc = "put"
    /\ profile_idx = 2
    /\ item_idx = 2
    /\ put_log # <<>>

\* attempts of the wrapper call in progress, the one about to be made included
C16_Counts ==
    /\ InProfile => attempt + 1 <= 3
    /\ last_call.attempts <= 3
    /\ pc = "put" =>
          \A j \in 1..Len(existing_folders) :
              Cardinality({k \in 1..Len(put_log) :
                              put_log[k].id = existing_folders[j].id}) <= 3
    /\ ProfileEnded =>
          \A j \in 1..Len(last_profile.folders) :
              Cardinality({k \in 1..Len(last_profile.put_log) :
                              last_profile.put_log[k].id = last_profile.folders[j].id}) <= 3

\* a step that stays with a profile either makes the next attempt of the same
\* wrapper call or begins the PUT call of a later folder; a GET call that has
\* ended is not begun again for the same entry of the list
C16_Steps ==
    (InProfile /\ InProfile' /\ run' = run /\ profile_idx' = profile_idx) =>
        /\ pc' = "get" => (pc = "get" /\ attempt' = attempt + 1)
        /\ (pc = "put" /\ pc' = "put") =>
              \/ item_idx' = item_idx /\ attempt' = attempt + 1
              \/ item_idx' > item_idx /\ attempt' = 0
        /\ (pc = "get" /\ pc' = "put") => attempt' = 0

\* C16: in one run an entry of the profile list causes one _api_get call of at
\* most 3 attempts, and a folder of the index one rename_folder call and so at
\* most 3 PUT attempts; the orchestrator repeats no call.
C16_AttemptCeiling == []C16_Counts /\ [][C16_Steps]_vars

\* a profile ended right after a PUT call that failed, with one call for that
\* folder in its log and no further call made for it
C16_Witness ==
    /\ ProfileEnded
    /\ last_call.fn = "put"
    /\ last_call.raised # "none"
    /\ last_profile.put_log # <<>>
    /\ ~last_profile.put_log[Len(last_profile.put_log)].ok

\* C17: every run of main that has begun reaches exit with status 0 or 1,
\* whatever the profile list, the listings and the HTTP outcomes are.
C17_Termination ==
    \A r \in 1..MaxRuns :
        (run = r /\ pc = "start") ~> (run = r /\ pc = "exit" /\ exit_code \in {0, 1})

\* a run over at least two profiles, one that succeeded and one that failed,
\* has reached exit
C17_Witness ==
    /\ pc = "exit"
    /\ exit_code \in {0, 1}
    /\ \E i, j \in 1..Len(results) : results[i] /\ ~results[j]

====
